---- MODULE Spec2Model ----
(***************************************************************************)
(* Model of the conversation-memory and chat-relay path of the agent:      *)
(*   graph.py  MemoryManager (SQLite table chat_history), create_agent     *)
(*   main.py   POST /chat, POST /chat/stream, GET/DELETE /history          *)
(* Text is modelled as a sequence of atoms (each atom one piece of text),  *)
(* so that concatenation, joining and emptiness behave as for strings.     *)
(***************************************************************************)
EXTENDS Integers, Sequences, FiniteSets, TLC

\* ---------------------------------------------------------------- bounds
MaxRows == 2           \* rows ever inserted, specification Spec
MaxStoreRows == 4      \* rows ever inserted, specification SpecStore
MaxChatRows == 6       \* rows ever inserted, specification SpecChat
MaxFrames == 4         \* frames of one streamed response before its terminal frame
MaxToolCalls == 2      \* tool invocation requests in one model response
MaxLimit == 3          \* largest limit passed to GET /history
MaxRounds == 2         \* model responses in one synchronous graph run
MaxExchangeFrames == 1 \* as MaxFrames, specification SpecExchange
MaxExchangeRows == 2   \* rows ever inserted, specification SpecExchange

\* ------------------------------------------------------ program constants
ContextLimit == 5      \* get_context: get_recent_messages(session_id, limit=5)

Sessions == {"s1", "s2"}
Roles == {"user", "assistant"}
Reqs == {"r1", "r2"}     \* request slots served concurrently

\* texts: "" is <<>>
UserTexts == {<<"hi">>}
StoreTexts == {<<"x">>}
Tokens == {<<>>, <<"a">>, <<"b">>}
ToolNames == {"convert_currency"}

VARIABLES
  table,            \* chat_history: set of rows [id, session_id, role, content]
  seq,              \* sqlite_sequence entry of chat_history (AUTOINCREMENT)
  issued,           \* history: every id ever assigned by an INSERT
  log,              \* history: per session, the turns appended since its last clear
  resp,             \* last response of a non-streaming endpoint / MemoryManager call
  pc,               \* per request slot: "idle", "stream", "closed"
  request,          \* per slot: [session_id, message] of the ChatRequest
  messages,         \* per slot: the message sequence the graph was seeded with
  current_content,  \* per slot: generate()'s current_content
  frames,           \* per slot: SSE frames yielded so far
  node,             \* per slot: position of the graph run: "chat", "tools", "end"
  pending,          \* per slot: tool invocations of the current Dispatch step not yet run
  writes,           \* history: per slot, the rows the request appended
  tool_calls_attr   \* whether on_chat_model_end outputs expose .tool_calls

storeVars == <<table, seq, issued, log>>
slotVars == <<pc, request, messages, current_content, frames, node, pending, writes>>
vars == <<table, seq, issued, log, resp, pc, request, messages, current_content,
          frames, node, pending, writes, tool_calls_attr>>

\* ------------------------------------------------------------ sequences
Min(a, b) == IF a < b THEN a ELSE b

Reverse(s) == [i \in 1..Len(s) |-> s[Len(s) + 1 - i]]

\* sep.join(parts)
RECURSIVE Join(_, _)
Join(parts, sep) ==
  IF parts = <<>> THEN <<>>
  ELSE IF Len(parts) = 1 THEN parts[1]
  ELSE parts[1] \o sep \o Join(Tail(parts), sep)

\* ------------------------------------------------- MemoryManager (SQLite)
MaxIdOf(rows) == IF rows = {} THEN 0
                 ELSE CHOOSE m \in {r.id : r \in rows} : \A r \in rows : r.id <= m

\* INTEGER PRIMARY KEY AUTOINCREMENT: one more than the largest id ever used
NextIdReuse(rows, last) == MaxIdOf(rows) + 1
NextId(rows, last) == (IF last > MaxIdOf(rows) THEN last ELSE MaxIdOf(rows)) + 1

\* INSERT INTO chat_history (session_id, role, content) VALUES (?, ?, ?)
InsertRowReplace(rows, last, s, role, c) ==
  {r \in rows : r.session_id # s \/ r.role # role}
    \cup {[id |-> NextId(rows, last), session_id |-> s, role |-> role, content |-> c]}
InsertRow(rows, last, s, role, c) ==
  rows \cup {[id |-> NextId(rows, last), session_id |-> s, role |-> role, content |-> c]}

\* ORDER BY id DESC
RECURSIVE OrderByIdDesc(_)
OrderByIdDesc(rows) ==
  IF rows = {} THEN <<>>
  ELSE LET top == CHOOSE r \in rows : \A q \in rows : q.id <= r.id
       IN <<top>> \o OrderByIdDesc(rows \ {top})

\* LIMIT ?  (a negative limit is no limit in SQLite)
Limit(s, k) == IF k < 0 THEN s ELSE SubSeq(s, 1, Min(k, Len(s)))

\* SELECT role, content ... WHERE session_id = ? ORDER BY id DESC LIMIT ?
SelectRecent(rows, s, k) ==
  Limit(OrderByIdDesc({r \in rows : r.session_id = s}), k)

GetRecentNoReverse(rows, s, k) ==
  LET got == SelectRecent(rows, s, k)
  IN [i \in 1..Len(got) |-> [role |-> got[i].role, content |-> got[i].content]]
get_recent_messages(rows, s, k) ==
  LET got == Reverse(SelectRecent(rows, s, k))
  IN [i \in 1..Len(got) |-> [role |-> got[i].role, content |-> got[i].content]]

\* f"{m['role']}: {m['content']}"
Line(m) == <<m.role, ": ">> \o m.content

get_context_limit1(rows, s) ==
  LET recent == get_recent_messages(rows, s, 1)
  IN IF recent # <<>>
     THEN <<"Recent conversation:", "\n">>
            \o Join([i \in 1..Len(recent) |-> Line(recent[i])], <<"\n">>)
     ELSE <<>>
get_context(rows, s) ==
  LET recent == get_recent_messages(rows, s, ContextLimit)
  IN IF recent # <<>>
     THEN <<"Recent conversation:", "\n">>
            \o Join([i \in 1..Len(recent) |-> Line(recent[i])], <<"\n">>)
     ELSE <<>>

\* DELETE FROM chat_history WHERE session_id = ?
DeleteAll(rows, s) == {}
DeleteWhere(rows, s) == {r \in rows : r.session_id # s}
RowCount(rows, s) == Cardinality({r \in rows : r.session_id = s})

NoResp == [op |-> "none"]

Init ==
  /\ table = {}
  /\ seq = 0
  /\ issued = {}
  /\ log = [s \in Sessions |-> <<>>]
  /\ resp = NoResp
  /\ pc = [r \in Reqs |-> "idle"]
  /\ request = [r \in Reqs |-> [session_id |-> "s1", message |-> <<>>]]
  /\ messages = [r \in Reqs |-> <<>>]
  /\ current_content = [r \in Reqs |-> <<>>]
  /\ frames = [r \in Reqs |-> <<>>]
  /\ node = [r \in Reqs |-> "chat"]
  /\ pending = [r \in Reqs |-> 0]
  /\ writes = [r \in Reqs |-> <<>>]
  /\ tool_calls_attr \in BOOLEAN

\* MemoryManager.add_message called on its own; ok = FALSE: the storage layer raises
AddMessage(s, role, c, ok) ==
  /\ IF ok
     THEN /\ table' = InsertRow(table, seq, s, role, c)
          /\ seq' = NextId(table, seq)
          /\ issued' = issued \cup {NextId(table, seq)}
          /\ log' = [log EXCEPT ![s] = Append(@, [role |-> role, content |-> c])]
          /\ resp' = [op |-> "append", status |-> 200, session_id |-> s]
     ELSE /\ UNCHANGED storeVars
          /\ resp' = [op |-> "append", status |-> 500, session_id |-> s]
  /\ UNCHANGED <<slotVars, tool_calls_attr>>

\* GET /history/{session_id}?limit=k
get_history(s, k, ok) ==
  /\ resp' = IF ok
             THEN [op |-> "history", status |-> 200, session_id |-> s, limit |-> k,
                   messages |-> get_recent_messages(table, s, k),
                   count |-> Len(get_recent_messages(table, s, k))]
             ELSE [op |-> "history", status |-> 500, session_id |-> s, limit |-> k]
  /\ UNCHANGED <<storeVars, slotVars, tool_calls_attr>>

\* MemoryManager.get_context called on its own
GetContext(s) ==
  /\ resp' = [op |-> "context", status |-> 200, session_id |-> s,
              context |-> get_context(table, s)]
  /\ UNCHANGED <<storeVars, slotVars, tool_calls_attr>>

\* DELETE /history/{session_id}
ClearUserRows(s, ok) ==
  /\ IF ok
     THEN /\ table' = {r \in table : r.session_id # s \/ r.role # "user"}
          /\ log' = [log EXCEPT ![s] = <<>>]
          /\ resp' = [op |-> "clear", status |-> 200, session_id |-> s,
                      deleted_messages |-> RowCount(table, s)]
     ELSE /\ UNCHANGED <<table, log>>
          /\ resp' = [op |-> "clear", status |-> 500, session_id |-> s]
  /\ UNCHANGED <<seq, issued, slotVars, tool_calls_attr>>
clear_history(s, ok) ==
  /\ IF ok
     THEN /\ table' = DeleteWhere(table, s)
          /\ log' = [log EXCEPT ![s] = <<>>]
          /\ resp' = [op |-> "clear", status |-> 200, session_id |-> s,
                      deleted_messages |-> RowCount(table, s)]
     ELSE /\ UNCHANGED <<table, log>>
          /\ resp' = [op |-> "clear", status |-> 500, session_id |-> s]
  /\ UNCHANGED <<seq, issued, slotVars, tool_calls_attr>>

NextStore ==
  \/ \E s \in Sessions, role \in Roles, c \in StoreTexts, ok \in BOOLEAN :
       seq < MaxStoreRows /\ AddMessage(s, role, c, ok)
  \/ \E s \in Sessions, k \in -1..MaxLimit, ok \in BOOLEAN : get_history(s, k, ok)
  \/ \E s \in Sessions : GetContext(s)
  \/ \E s \in Sessions, ok \in BOOLEAN : clear_history(s, ok)

InitStore == Init /\ tool_calls_attr

SpecStore == InitStore /\ [][NextStore]_vars

\* CREATE TABLE IF NOT EXISTS chat_history: the rows of an existing table stay
CreateTableAnew(exists, rows) == {}
CreateTableIfNotExists(exists, rows) == IF exists THEN rows ELSE {}

\* the process stops and starts again on the same database file: requests in
\* flight are gone, MemoryManager is constructed again and _init_db runs
Restart ==
  /\ table' = CreateTableIfNotExists(TRUE, table)
  /\ resp' = [op |-> "restart"]
  /\ pc' = [r \in Reqs |-> "idle"]
  /\ request' = [r \in Reqs |-> [session_id |-> "s1", message |-> <<>>]]
  /\ messages' = [r \in Reqs |-> <<>>]
  /\ current_content' = [r \in Reqs |-> <<>>]
  /\ frames' = [r \in Reqs |-> <<>>]
  /\ node' = [r \in Reqs |-> "chat"]
  /\ pending' = [r \in Reqs |-> 0]
  /\ writes' = [r \in Reqs |-> <<>>]
  /\ UNCHANGED <<seq, issued, log, tool_calls_attr>>

NextDurable == NextStore \/ Restart

SpecDurable == InitStore /\ [][NextDurable]_vars

\* ------------------------------------------------------ Conversation Graph
SystemMessage(c) == [type |-> "system", content |-> c]
HumanMessage(c) == [type |-> "human", content |-> c]
AIMessage(c, tcs) == [type |-> "ai", content |-> c, tool_calls |-> tcs]
ToolMessage(name) == [type |-> "tool", name |-> name, content |-> <<"result">>]

\* lines 119-124 / 161-166: the sequence the graph is seeded with
Seed(context, message) ==
  (IF context # <<>> THEN <<SystemMessage(context)>> ELSE <<>>)
    \o <<HumanMessage(message)>>

ToolCallSeqs == UNION {[1..n -> ToolNames] : n \in 0..MaxToolCalls}
ChatTexts == {<<>>, <<"a">>}
Raise == [raise |-> TRUE]
\* a model response: final text, or a request for tools
ModelOutputs == {AIMessage(c, <<>>) : c \in ChatTexts}
                  \cup {AIMessage(<<>>, tcs) : tcs \in ToolCallSeqs \ {<<>>}}

\* what the model does in the successive Generate steps of one run: responses
\* that request tools, then either a response without tool requests or an exception
Scripts ==
  UNION {{sc \in [1..n -> ModelOutputs \cup {Raise}] :
            /\ \A i \in 1..(n - 1) : sc[i] # Raise /\ sc[i].tool_calls # <<>>
            /\ sc[n] = Raise \/ sc[n].tool_calls = <<>>} : n \in 1..MaxRounds}

\* tools_condition: "tools" iff the last message carries tool calls, else END
tools_condition(msgs) ==
  IF msgs[Len(msgs)].tool_calls # <<>> THEN "tools" ELSE "end"

\* ToolNode: one tool message per requested invocation, in request order
ToolNode(msgs) ==
  LET tcs == msgs[Len(msgs)].tool_calls
  IN msgs \o [i \in 1..Len(tcs) |-> ToolMessage(tcs[i])]

\* agent_graph.invoke: START -> chat -> (tools -> chat)* -> END
RECURSIVE invoke(_, _)
invoke(msgs, script) ==
  IF script[1] = Raise THEN [raised |-> TRUE, messages |-> msgs]
  ELSE LET after == Append(msgs, script[1])
       IN IF tools_condition(after) = "end"
          THEN [raised |-> FALSE, messages |-> after]
          ELSE invoke(ToolNode(after), Tail(script))

\* the step of POST /chat that raises, if any
ChatFailures == {"none", "context", "append_user", "append_assistant"}

\* the (script, failure) inputs with distinct behaviour: a failing context read
\* precedes the run, and a run that raises is never followed by an append
ChatInputs ==
  {<<sc, fail>> \in Scripts \X ChatFailures :
     /\ fail = "context" => sc = <<Raise>>
     /\ sc[Len(sc)] = Raise /\ fail # "context" => fail = "none"}

\* POST /chat
chat(s, msg, script, fail) ==
  \E context \in {get_context(table, s)} :
  \E msgs \in {Seed(context, msg)} :
  \E result \in {invoke(msgs, script)} :
  \E response_content \in {result.messages[Len(result.messages)].content} :
  \E id1 \in {NextId(table, seq)} :
  \E t1 \in {InsertRow(table, seq, s, "user", msg)} :
  \E id2 \in {NextId(t1, id1)} :
  LET userRow == [role |-> "user", content |-> msg]
      asstRow == [role |-> "assistant", content |-> response_content]
      failed(seeded) == [op |-> "chat", status |-> 500, session_id |-> s,
                         seeded |-> seeded]
  IN /\ IF fail = "context"
        THEN /\ resp' = failed(<<>>)
             /\ UNCHANGED storeVars
        ELSE IF result.raised \/ fail = "append_user"
        THEN /\ resp' = failed(msgs)
             /\ UNCHANGED storeVars
        ELSE IF fail = "append_assistant"
        THEN /\ resp' = failed(msgs)
             /\ table' = t1
             /\ seq' = id1
             /\ issued' = issued \cup {id1}
             /\ log' = [log EXCEPT ![s] = Append(@, userRow)]
        ELSE /\ resp' = [op |-> "chat", status |-> 200, session_id |-> s,
                         seeded |-> msgs, response |-> response_content]
             /\ table' = InsertRow(t1, id1, s, "assistant", response_content)
             /\ seq' = id2
             /\ issued' = issued \cup {id1, id2}
             /\ log' = [log EXCEPT ![s] = @ \o <<userRow, asstRow>>]
     /\ UNCHANGED <<slotVars, tool_calls_attr>>

NextChat ==
  \/ \E s \in Sessions, msg \in UserTexts, in \in ChatInputs :
       chat(s, msg, in[1], in[2]) /\ seq' <= MaxChatRows
  \/ \E s \in Sessions : GetContext(s)
  \/ \E s \in Sessions, ok \in BOOLEAN : clear_history(s, ok)

SpecChat == InitStore /\ [][NextChat]_vars

\* ------------------------------------------- the graph, one step at a time
MaxGraphRounds == 3

\* Generate steps of the run so far that requested tools
Rounds(msgs) ==
  Cardinality({i \in 1..Len(msgs) : msgs[i].type = "ai" /\ msgs[i].tool_calls # <<>>})

\* graph.add_edge("tools", "chat")
ToolsEdgeToEnd == "end"
ToolsEdge == "chat"

\* agent_graph.invoke({"messages": messages}): add_edge(START, "chat")
GraphStart(r, s, msg) ==
  /\ pc[r] = "idle"
  /\ pc' = [pc EXCEPT ![r] = "graph"]
  /\ request' = [request EXCEPT ![r] = [session_id |-> s, message |-> msg]]
  /\ messages' = [messages EXCEPT ![r] = Seed(get_context(table, s), msg)]
  /\ node' = [node EXCEPT ![r] = "chat"]
  /\ UNCHANGED <<storeVars, resp, current_content, frames, pending, writes,
                 tool_calls_attr>>

\* chat_node, then the conditional edge: the model answers out
Generate(r, out) ==
  /\ pc[r] = "graph" /\ node[r] = "chat"
  /\ out.tool_calls # <<>> => Rounds(messages[r]) < MaxGraphRounds
  /\ messages' = [messages EXCEPT ![r] = Append(@, out)]
  /\ node' = [node EXCEPT ![r] = tools_condition(Append(messages[r], out))]
  /\ UNCHANGED <<storeVars, resp, pc, request, current_content, frames, pending,
                 writes, tool_calls_attr>>

\* the tools node, then its edge
Dispatch(r) ==
  /\ pc[r] = "graph" /\ node[r] = "tools"
  /\ messages' = [messages EXCEPT ![r] = ToolNode(@)]
  /\ node' = [node EXCEPT ![r] = ToolsEdge]
  /\ UNCHANGED <<storeVars, resp, pc, request, current_content, frames, pending,
                 writes, tool_calls_attr>>

\* the model call raises, or the executor gives up before its next step
GraphRaise(r) ==
  /\ pc[r] = "graph" /\ node[r] \in {"chat", "tools"}
  /\ node' = [node EXCEPT ![r] = "raised"]
  /\ UNCHANGED <<storeVars, resp, pc, request, messages, current_content, frames,
                 pending, writes, tool_calls_attr>>

\* invoke returns or raises to its caller; the slot is free again
GraphReturn(r) ==
  /\ pc[r] = "graph" /\ node[r] \in {"end", "raised"}
  /\ pc' = [pc EXCEPT ![r] = "idle"]
  /\ messages' = [messages EXCEPT ![r] = <<>>]
  /\ node' = [node EXCEPT ![r] = "chat"]
  /\ UNCHANGED <<storeVars, resp, request, current_content, frames, pending,
                 writes, tool_calls_attr>>

NextGraph ==
  \/ \E s \in Sessions, msg \in UserTexts : GraphStart("r1", s, msg)
  \/ \E out \in ModelOutputs : Generate("r1", out)
  \/ Dispatch("r1")
  \/ GraphRaise("r1")
  \/ GraphReturn("r1")

SpecGraph == Init /\ [][NextGraph]_vars

\* invoke runs the nodes synchronously: a node that can run does run
FairGraph ==
  /\ SpecGraph
  /\ WF_vars(\E out \in ModelOutputs : Generate("r1", out))
  /\ WF_vars(Dispatch("r1"))

\* ------------------------------------------------- POST /chat/stream
TokenFrame(tok, content) == [type |-> "token", token |-> tok, content |-> content]
ToolCallFrameFirstOnly(names) == [type |-> "tool_call", tools |-> <<names[1]>>]
ToolCallFrame(names) == [type |-> "tool_call", tools |-> names]
ToolResultFrame == [type |-> "tool_result", status |-> "completed"]
DoneFrame(s) == [type |-> "done", session_id |-> s]
ErrorFrame == [type |-> "error"]

\* event payloads of astream_events; NoContent is a chunk without .content
NoContent == [has_content |-> FALSE, content |-> <<>>]
Chunks == {[has_content |-> TRUE, content |-> t] : t \in Tokens} \cup {NoContent}
StreamEv(chunk) == [event |-> "on_chat_model_stream", chunk |-> chunk]
ModelEndEv(tcs) == [event |-> "on_chat_model_end", tool_calls |-> tcs]
ToolEndEv == [event |-> "on_tool_end"]
OtherEv == [event |-> "other"]
Events == {StreamEv(c) : c \in Chunks} \cup {ModelEndEv(tcs) : tcs \in ToolCallSeqs}
            \cup {ToolEndEv, OtherEv}

\* the events the graph can produce next from position (nd, pend)
GraphEvents(nd, pend) ==
  {OtherEv}
    \cup (IF nd = "chat"
          THEN {StreamEv(c) : c \in Chunks} \cup {ModelEndEv(tcs) : tcs \in ToolCallSeqs}
          ELSE {})
    \cup (IF nd = "tools" /\ pend > 0 THEN {ToolEndEv} ELSE {})

\* position of the graph after producing e: chat -> tools iff tool calls were
\* requested, else END; tools -> chat once every requested tool has been handled
GraphNode(nd, pend, e) ==
  IF e.event = "on_chat_model_end"
  THEN (IF e.tool_calls # <<>> THEN "tools" ELSE "end")
  ELSE IF e.event = "on_tool_end" /\ pend = 1 THEN "chat"
  ELSE nd
GraphPending(nd, pend, e) ==
  IF e.event = "on_chat_model_end" THEN Len(e.tool_calls)
  ELSE IF e.event = "on_tool_end" THEN pend - 1
  ELSE pend

\* lines 177-189
IsToken(e) ==
  e.event = "on_chat_model_stream" /\ e.chunk.has_content /\ e.chunk.content # <<>>
\* lines 191-200
IsToolCall(e, attr) ==
  e.event = "on_chat_model_end" /\ attr /\ e.tool_calls # <<>>

\* body of the async for loop: frames yielded for one event
RelayFramesStale(cur, e, attr) ==
  IF IsToken(e) THEN <<TokenFrame(e.chunk.content, cur)>>
  ELSE IF IsToolCall(e, attr) THEN <<ToolCallFrame(e.tool_calls)>>
  ELSE IF e.event = "on_tool_end" THEN <<ToolResultFrame>>
  ELSE <<>>
RelayFrames(cur, e, attr) ==
  IF IsToken(e) THEN <<TokenFrame(e.chunk.content, cur \o e.chunk.content)>>
  ELSE IF IsToolCall(e, attr) THEN <<ToolCallFrame(e.tool_calls)>>
  ELSE IF e.event = "on_tool_end" THEN <<ToolResultFrame>>
  ELSE <<>>

\* body of the async for loop: current_content after one event
RelayContentNoReset(cur, e, attr) ==
  IF IsToken(e) THEN cur \o e.chunk.content ELSE cur
RelayContent(cur, e, attr) ==
  IF IsToken(e) THEN cur \o e.chunk.content
  ELSE IF IsToolCall(e, attr) THEN <<>>
  ELSE cur

\* first resumption of generate(): lines 160-171
StartStream(r, s, msg, ok) ==
  /\ pc[r] \in {"idle", "closed"}
  /\ request' = [request EXCEPT ![r] = [session_id |-> s, message |-> msg]]
  /\ writes' = [writes EXCEPT ![r] = <<>>]
  /\ node' = [node EXCEPT ![r] = "chat"]
  /\ pending' = [pending EXCEPT ![r] = 0]
  /\ current_content' = [current_content EXCEPT ![r] = <<>>]
  /\ IF ok
     THEN /\ messages' = [messages EXCEPT ![r] = Seed(get_context(table, s), msg)]
          /\ frames' = [frames EXCEPT ![r] = <<>>]
          /\ pc' = [pc EXCEPT ![r] = "stream"]
     ELSE /\ messages' = [messages EXCEPT ![r] = <<>>]
          /\ frames' = [frames EXCEPT ![r] = <<ErrorFrame>>]
          /\ pc' = [pc EXCEPT ![r] = "closed"]
  /\ UNCHANGED <<storeVars, resp, tool_calls_attr>>

\* one iteration of the async for loop over astream_events
StreamEvent(r, e) ==
  /\ pc[r] = "stream"
  /\ node[r] # "end"
  /\ e \in GraphEvents(node[r], pending[r])
  /\ node' = [node EXCEPT ![r] = GraphNode(node[r], pending[r], e)]
  /\ pending' = [pending EXCEPT ![r] = GraphPending(node[r], pending[r], e)]
  /\ frames' = [frames EXCEPT ![r] = @ \o RelayFrames(current_content[r], e, tool_calls_attr)]
  /\ current_content' =
       [current_content EXCEPT ![r] = RelayContent(@, e, tool_calls_attr)]
  /\ UNCHANGED <<storeVars, resp, pc, request, messages, writes, tool_calls_attr>>

\* ToolNode answers a requested invocation without running a tool (a name that
\* is not among ALL_TOOLS): no on_tool_end is produced for it
ToolSkipped(r) ==
  /\ pc[r] = "stream"
  /\ node[r] = "tools"
  /\ pending[r] > 0
  /\ pending' = [pending EXCEPT ![r] = @ - 1]
  /\ node' = [node EXCEPT ![r] = IF pending[r] = 1 THEN "chat" ELSE "tools"]
  /\ UNCHANGED <<storeVars, resp, pc, request, messages, current_content, frames,
                 writes, tool_calls_attr>>

\* astream_events raises: lines 223-228
StreamRaise(r) ==
  /\ pc[r] = "stream"
  /\ node[r] # "end"
  /\ frames' = [frames EXCEPT ![r] = Append(@, ErrorFrame)]
  /\ pc' = [pc EXCEPT ![r] = "closed"]
  /\ UNCHANGED <<storeVars, resp, request, messages, current_content, node, pending,
                 writes, tool_calls_attr>>

StreamFailures == {"none", "append_user", "append_assistant"}

\* rows persisted after the stream is exhausted: lines 210-214
PersistAlways(full_response, fail) ==
  IF fail = "append_user" THEN 0 ELSE IF fail = "append_assistant" THEN 1 ELSE 2
Persisted(full_response, fail) ==
  IF full_response = <<>> \/ fail = "append_user" THEN 0
  ELSE IF fail = "append_assistant" THEN 1
  ELSE 2

\* the frames yielded once the stream is exhausted: done (lines 216-221), or
\* error (lines 223-228) when an append raised before done was reached
FinishFramesDoneThenError(raised, s) ==
  IF raised THEN <<DoneFrame(s), ErrorFrame>> ELSE <<DoneFrame(s)>>
FinishFrames(raised, s) == IF raised THEN <<ErrorFrame>> ELSE <<DoneFrame(s)>>

\* the stream is exhausted: lines 210-221, or 223-228 when an append raises
FinishStream(r, fail) ==
  LET s == request[r].session_id
      msg == request[r].message
      full_response == current_content[r]
      n == Persisted(full_response, fail)
      userRow == [role |-> "user", content |-> msg]
      asstRow == [role |-> "assistant", content |-> full_response]
      t1 == InsertRow(table, seq, s, "user", msg)
      id1 == NextId(table, seq)
      t2 == InsertRow(t1, id1, s, "assistant", full_response)
      id2 == NextId(t1, id1)
      raised == full_response # <<>> /\ fail # "none"
  IN /\ pc[r] = "stream"
     /\ node[r] = "end"
     /\ full_response = <<>> => fail = "none"
     /\ table' = IF n = 0 THEN table ELSE IF n = 1 THEN t1 ELSE t2
     /\ seq' = IF n = 0 THEN seq ELSE IF n = 1 THEN id1 ELSE id2
     /\ issued' = issued \cup (IF n = 0 THEN {} ELSE IF n = 1 THEN {id1} ELSE {id1, id2})
     /\ log' = [log EXCEPT ![s] =
                  @ \o (IF n = 0 THEN <<>> ELSE IF n = 1 THEN <<userRow>>
                        ELSE <<userRow, asstRow>>)]
     /\ writes' = [writes EXCEPT ![r] =
                  IF n = 0 THEN <<>>
                  ELSE IF n = 1 THEN <<userRow>>
                  ELSE <<userRow, asstRow>>]
     /\ frames' = [frames EXCEPT ![r] = @ \o FinishFrames(raised, s)]
     /\ pc' = [pc EXCEPT ![r] = "closed"]
     /\ UNCHANGED <<resp, request, messages, current_content, node, pending,
                    tool_calls_attr>>

\* the steps of the streamed requests served in the slots R, with at most
\* maxFrames frames before the terminal one and at most maxRows rows inserted
StreamNext(R, maxFrames, maxRows) ==
  \/ \E r \in R, s \in Sessions, msg \in UserTexts, ok \in BOOLEAN :
       StartStream(r, s, msg, ok)
  \/ \E r \in R, e \in Events : StreamEvent(r, e) /\ Len(frames'[r]) <= maxFrames
  \/ \E r \in R : ToolSkipped(r)
  \/ \E r \in R : StreamRaise(r)
  \/ \E r \in R, fail \in StreamFailures : FinishStream(r, fail) /\ seq' <= maxRows

NextStream == StreamNext({"r1"}, MaxFrames, MaxRows)

Spec == Init /\ [][NextStream]_vars

\* POST /chat and POST /chat/stream served by the same process
NextExchange ==
  \/ StreamNext({"r1"}, MaxExchangeFrames, MaxExchangeRows)
  \/ \E s \in Sessions, msg \in UserTexts, in \in ChatInputs :
       chat(s, msg, in[1], in[2]) /\ seq' <= MaxExchangeRows

SpecExchange == InitStore /\ [][NextExchange]_vars

\* two streamed requests, each served once, running concurrently
MaxConcFrames == 2
MaxConcRows == 4

NextConc ==
  \/ \E r \in Reqs, s \in Sessions, msg \in UserTexts, ok \in BOOLEAN :
       pc[r] = "idle" /\ StartStream(r, s, msg, ok)
  \/ \E r \in Reqs, e \in Events : StreamEvent(r, e) /\ Len(frames'[r]) <= MaxConcFrames
  \/ \E r \in Reqs : ToolSkipped(r)
  \/ \E r \in Reqs : StreamRaise(r)
  \/ \E r \in Reqs, fail \in StreamFailures :
       FinishStream(r, fail) /\ seq' <= MaxConcRows

SpecConc == Init /\ [][NextConc]_vars

\* one streamed request with POST /chat and DELETE /history requests interleaved
MaxMixFrames == 1
MaxMixRows == 4

\* chat runs without tool rounds that end, raise, or fail at the second append
MixInputs ==
  {in \in ChatInputs : Len(in[1]) = 1 /\ in[2] \in {"none", "append_assistant"}}

\* events of a streamed run without tool rounds
MixEvents == {StreamEv(c) : c \in Chunks} \cup {ModelEndEv(<<>>)}

NextMixed ==
  \/ \E s \in Sessions, msg \in UserTexts, ok \in BOOLEAN :
       pc["r1"] = "idle" /\ StartStream("r1", s, msg, ok)
  \/ \E e \in MixEvents : StreamEvent("r1", e) /\ Len(frames'["r1"]) <= MaxMixFrames
  \/ StreamRaise("r1")
  \/ \E fail \in StreamFailures : FinishStream("r1", fail) /\ seq' <= MaxMixRows
  \/ \E s \in Sessions, msg \in UserTexts, in \in MixInputs :
       chat(s, msg, in[1], in[2]) /\ seq' <= MaxMixRows
  \/ \E s \in Sessions, ok \in BOOLEAN : clear_history(s, ok)

SpecMixed == InitStore /\ [][NextMixed]_vars

\* ---------------------------------------------------------------- Tool Set
\* JSON payloads and Python values, each a tagged record
JNull == [t |-> "null"]
JNum(n) == [t |-> "num", v |-> n]
JStr(s) == [t |-> "str", v |-> s]
JArr(v) == [t |-> "arr", v |-> v]
JObj(f) == [t |-> "obj", f |-> f]
NotJson == [t |-> "notjson"]
Text(parts) == [t |-> "text", v |-> parts]
\* a raised exception
Exc(e) == [t |-> "exc", exc |-> e]
IsExc(v) == v.t = "exc"

\* d[k] for a string key k
Index(d, k) ==
  IF IsExc(d) THEN d
  ELSE IF d.t = "obj"
  THEN (IF k \in DOMAIN d.f THEN d.f[k] ELSE Exc("KeyError"))
  ELSE Exc("TypeError")

\* d[0]
First(d) ==
  IF IsExc(d) THEN d
  ELSE IF d.t = "arr"
  THEN (IF d.v # <<>> THEN d.v[1] ELSE Exc("IndexError"))
  ELSE IF d.t = "str"
  THEN (IF d.v # <<>> THEN JStr(<<d.v[1]>>) ELSE Exc("IndexError"))
  ELSE IF d.t = "obj" THEN Exc("KeyError")
  ELSE Exc("TypeError")

\* d.get(k, default)
DictGet(d, k, default) ==
  IF IsExc(d) THEN d
  ELSE IF d.t = "obj" THEN (IF k \in DOMAIN d.f THEN d.f[k] ELSE default)
  ELSE Exc("AttributeError")

\* not v
Falsy(v) ==
  \/ v.t = "null"
  \/ v.t = "num" /\ v.v = 0
  \/ v.t \in {"str", "arr"} /\ v.v = <<>>
  \/ v.t = "obj" /\ DOMAIN v.f = {}

\* outcomes of the outbound call
Timeout == [kind |-> "timeout"]
Response(status, body) == [kind |-> "response", status |-> status, body |-> body]

\* requests.get/post(..., timeout=..); raise_for_status(); response.json()
Fetch(http) ==
  IF http.kind = "timeout" THEN Exc("Timeout")
  ELSE IF http.status >= 400 THEN Exc("HTTPError")
  ELSE IF http.body.t = "notjson" THEN Exc("JSONDecodeError")
  ELSE http.body

\* try: body  except Exception as e: return f"{prefix}: {str(e)}"
Unguarded(body, prefix) == body
Guarded(body, prefix) ==
  IF IsExc(body) THEN Text(<<prefix, ": ", body.exc>>) ELSE body

\* f-string of values: any value formats, an exception among them propagates
Format(vals) ==
  IF \E i \in 1..Len(vals) : IsExc(vals[i])
  THEN vals[CHOOSE i \in 1..Len(vals) :
              IsExc(vals[i]) /\ \A j \in 1..(i - 1) : ~IsExc(vals[j])]
  ELSE Text([i \in 1..Len(vals) |-> vals[i].t])

\* tools.py:41-46: for item in data.get("results", [])[:3]
SearchItems(results) ==
  IF IsExc(results) THEN results
  ELSE IF results.t \in {"arr", "str"}
  THEN LET items == SubSeq(results.v, 1, Min(3, Len(results.v)))
       IN IF results.t = "str" /\ items # <<>> THEN Exc("AttributeError")
          ELSE IF \E i \in 1..Len(items) : items[i].t # "obj" THEN Exc("AttributeError")
          ELSE JArr(items)
  ELSE Exc("TypeError")

\* tools.py:13-51
tavily_search(key, http) ==
  IF ~key THEN [result |-> Text(<<"Error: TAVILY_API_KEY not set">>), network |-> FALSE]
  ELSE LET data == Fetch(http)
           results == SearchItems(DictGet(data, "results", JArr(<<>>)))
           body == IF IsExc(results) THEN results
                   ELSE IF results.v # <<>> THEN Text(<<"results">>)
                   ELSE Text(<<"No results found">>)
       IN [result |-> Guarded(body, "Search failed"), network |-> TRUE]

\* tools.py:54-82
get_weather(key, http) ==
  LET data == Fetch(http)
      current == First(Index(data, "current_condition"))
      body == Format(<<Index(current, "temp_C"), Index(current, "temp_F"),
                       Index(First(Index(current, "weatherDesc")), "value"),
                       Index(current, "humidity"), Index(current, "windspeedKmph"),
                       Index(current, "FeelsLikeC"), Index(current, "FeelsLikeF")>>)
  IN [result |-> Guarded(body, "Could not fetch weather"), network |-> TRUE]

\* tools.py:85-115, converting to EUR
convert_currency(key, http) ==
  LET data == Fetch(http)
      rates == Index(data, "rates")
      rate == DictGet(rates, "EUR", JNull)
      body == IF IsExc(rate) THEN rate
              ELSE IF Falsy(rate) THEN Text(<<"Currency ", "EUR", " not found">>)
              ELSE IF rate.t # "num" THEN Exc("TypeError")
              ELSE Text(<<"converted">>)
  IN [result |-> Guarded(body, "Currency conversion failed"), network |-> TRUE]

\* tools.py:118-144
get_wikipedia_summary(key, http) ==
  LET data == Fetch(http)
      page == DictGet(DictGet(DictGet(data, "content_urls", JObj(<<>>)),
                              "desktop", JObj(<<>>)), "page", JStr(<<"N/A">>))
      body == Format(<<DictGet(data, "title", JStr(<<"topic">>)),
                       DictGet(data, "extract", JStr(<<"No summary available">>)),
                       page>>)
  IN [result |-> Guarded(body, "Wikipedia lookup failed"), network |-> TRUE]

\* tools.py:147-169: pytz.timezone(timezone) raises for an unknown name; the
\* tool makes no outbound call; known = the timezone name is known to pytz
get_world_time(known, http) ==
  LET body == IF known THEN Text(<<"Current time in ", "timezone">>)
              ELSE Exc("UnknownTimeZoneError")
  IN [result |-> Guarded(body, "Timezone lookup failed"), network |-> FALSE]

ALL_TOOLS == {"tavily_search", "get_weather", "convert_currency",
              "get_wikipedia_summary", "get_world_time"}

\* the tool called by name; flag is the presence of TAVILY_API_KEY for the
\* search tool and whether the timezone is known for the time tool
RunTool(name, flag, http) ==
  IF name = "tavily_search" THEN tavily_search(flag, http)
  ELSE IF name = "get_weather" THEN get_weather(flag, http)
  ELSE IF name = "convert_currency" THEN convert_currency(flag, http)
  ELSE IF name = "get_wikipedia_summary" THEN get_wikipedia_summary(flag, http)
  ELSE get_world_time(flag, http)

\* payloads an upstream API can answer with: complete, incomplete, malformed
WeatherNow(desc) ==
  JObj([temp_C |-> JStr(<<"7">>), temp_F |-> JStr(<<"45">>), weatherDesc |-> desc,
        humidity |-> JStr(<<"80">>), windspeedKmph |-> JStr(<<"9">>),
        FeelsLikeC |-> JStr(<<"5">>), FeelsLikeF |-> JStr(<<"41">>)])
Payloads ==
  {NotJson, JNull, JArr(<<>>), JObj(<<>>), JStr(<<"x">>),
   JObj([results |-> JArr(<<JObj([title |-> JStr(<<"t">>)])>>)]),
   JObj([results |-> JArr(<<JStr(<<"x">>)>>)]),
   JObj([results |-> JNull]),
   JObj([results |-> JArr(<<>>)]),
   JObj([current_condition |-> JArr(<<WeatherNow(JArr(<<JObj([value |-> JStr(<<"Rain">>)])>>))>>)]),
   JObj([current_condition |-> JArr(<<WeatherNow(JArr(<<>>))>>)]),
   JObj([current_condition |-> JArr(<<JObj([temp_C |-> JStr(<<"7">>)])>>)]),
   JObj([current_condition |-> JArr(<<>>)]),
   JObj([rates |-> JObj([EUR |-> JNum(2)])]),
   JObj([rates |-> JObj([EUR |-> JNum(0)])]),
   JObj([rates |-> JObj([EUR |-> JStr(<<"2">>)])]),
   JObj([rates |-> JObj([GBP |-> JNum(3)])]),
   JObj([rates |-> JNull]),
   JObj([title |-> JStr(<<"T">>), extract |-> JStr(<<"E">>),
         content_urls |-> JObj([desktop |-> JObj([page |-> JStr(<<"u">>)])])]),
   JObj([title |-> JStr(<<"T">>), content_urls |-> JNull]),
   JObj([content_urls |-> JObj([desktop |-> JStr(<<"u">>)])])}
Statuses == {200, 404, 500}
HttpOutcomes == {Timeout} \cup {Response(st, b) : st \in Statuses, b \in Payloads}

\* the Dispatch step runs one tool; its result is what ToolNode receives
CallTool(name, flag, http) ==
  /\ resp' = [op |-> "tool", tool |-> name, flag |-> flag, http |-> http,
              result |-> RunTool(name, flag, http).result,
              network |-> RunTool(name, flag, http).network]
  /\ UNCHANGED <<storeVars, slotVars, tool_calls_attr>>

NextTools ==
  \E name \in ALL_TOOLS, flag \in BOOLEAN, http \in HttpOutcomes :
    CallTool(name, flag, http)

SpecTools == InitStore /\ [][NextTools]_vars

\* ------------------------------------------------------------- properties
\* the last min(Len(sq), k) elements of sq, in order
LastK(sq, k) == SubSeq(sq, Len(sq) - Min(Len(sq), k) + 1, Len(sq))

\* C1: for every session and every k >= 1, recent(session, k) is exactly the
\* last min(N, k) of the N turns appended to that session since its last clear,
\* oldest first, whatever was appended to other sessions in between.
C1_RecentIsLastTurns ==
  \A s \in Sessions : \A k \in 1..MaxLimit :
    get_recent_messages(table, s, k) = LastK(log[s], k)

\* C1 witness: GET /history answered with fewer turns than the session holds,
\* while another session holds rows too
C1_Witness ==
  /\ resp.op = "history" /\ resp.status = 200 /\ resp.limit = 2
  /\ Len(log[resp.session_id]) > 2
  /\ resp.messages = LastK(log[resp.session_id], 2)
  /\ resp.messages[1].role # resp.messages[2].role
  /\ \E r \in table : r.session_id # resp.session_id /\ r.id > 1
  /\ resp.count = 2

\* C2: a successful clear(session) removes exactly the rows of that session and
\* returns their number; afterwards recent(session, any limit) is empty, and every
\* row of every other session is still there, unchanged.
C2_ClearRemovesExactlySession ==
  [][resp'.op = "clear" /\ resp'.status = 200 =>
       LET s == resp'.session_id
       IN /\ table' = {r \in table : r.session_id # s}
          /\ resp'.deleted_messages = Cardinality({r \in table : r.session_id = s})
          /\ \A k \in -1..MaxLimit : get_recent_messages(table', s, k) = <<>>
          /\ (\A r \in table : r.session_id # s) => resp'.deleted_messages = 0]_vars

\* C2 witness: a clear that deleted rows and left rows of another session
C2_Witness ==
  /\ resp.op = "clear" /\ resp.status = 200 /\ resp.deleted_messages >= 2
  /\ log[resp.session_id] = <<>>
  /\ \E r \in table : r.session_id # resp.session_id

\* a POST /chat step: every non-streaming operation sets resp, no step of a
\* streamed response does
ChatStep == resp'.op = "chat" /\ UNCHANGED slotVars

\* C3: a synchronous chat that ends in failure (500) leaves the store with
\* exactly the rows it had before the request, whichever step failed.
C3_NoPartialPersistence ==
  [][ChatStep /\ resp'.status = 500 => table' = table]_vars

Last(sq) == sq[Len(sq)]
IsTerminal(f) == f.type \in {"done", "error"}

\* C4: a streamed response ends with exactly one terminal frame, which is its
\* last frame: done when nothing failed, error when the context read, the event
\* stream or an append failed; an open response has no terminal frame yet.
C4_OneTerminalFrame ==
  \A r \in Reqs :
    /\ \A i \in 1..(Len(frames[r]) - 1) : ~IsTerminal(frames[r][i])
    /\ pc[r] = "stream" => \A i \in 1..Len(frames[r]) : ~IsTerminal(frames[r][i])
    /\ pc[r] = "closed" =>
         /\ frames[r] # <<>> /\ IsTerminal(Last(frames[r]))
         /\ Last(frames[r]).type = "done" <=>
              /\ messages[r] # <<>>
              /\ node[r] = "end"
              /\ current_content[r] = <<>> \/ Len(writes[r]) = 2

\* C4 witness: the failure came after the stream was exhausted (an append
\* raised): frames were relayed and the response still ends with error alone
C4_Witness ==
  /\ pc["r1"] = "closed" /\ node["r1"] = "end"
  /\ Len(frames["r1"]) >= 3
  /\ Last(frames["r1"]).type = "error"
  /\ Len(writes["r1"]) = 1

\* the responses that ended with done
Succeeded(r) == pc[r] = "closed" /\ Last(frames[r]).type = "done"

\* number of tool_result frames that directly follow frame i
RECURSIVE ResultsAfter(_, _)
ResultsAfter(fs, i) ==
  IF i < Len(fs) /\ fs[i + 1].type = "tool_result" THEN 1 + ResultsAfter(fs, i + 1)
  ELSE 0

\* C5 as stated: in a successful streamed response no token frame follows a
\* tool_call or tool_result frame, and each tool_call frame is followed by exactly
\* one tool_result frame.
C5_TokensThenToolPairs ==
  \A r \in Reqs : Succeeded(r) =>
    /\ \A i \in 1..Len(frames[r]) : \A j \in (i + 1)..Len(frames[r]) :
         frames[r][i].type \in {"tool_call", "tool_result"} => frames[r][j].type # "token"
    /\ \A i \in 1..Len(frames[r]) :
         frames[r][i].type = "tool_call" => ResultsAfter(frames[r], i) = 1

\* C5 amended: the frames follow the graph's Generate/Dispatch cycle: a tool_call
\* frame names the n >= 1 tools requested by the Generate step that just ended and
\* is directly followed by at most n tool_result frames (one per tool that ran);
\* token frames of the next Generate step can follow; done comes last, once.
C5_FramesFollowGraphCycle ==
  \A r \in Reqs :
    /\ \A i \in 1..Len(frames[r]) :
         frames[r][i].type = "tool_call" =>
           /\ Len(frames[r][i].tools) >= 1
           /\ ResultsAfter(frames[r], i) <= Len(frames[r][i].tools)
    /\ \A i \in 1..(Len(frames[r]) - 1) : frames[r][i].type # "done"
    /\ Succeeded(r) => \A i \in 1..Len(frames[r]) :
         frames[r][i].type \in {"token", "tool_call", "tool_result", "done"}

\* C5 witness: a successful response where two tools were requested in one step,
\* both ran, and the model generated text again afterwards
C5_Witness ==
  /\ Succeeded("r1")
  /\ \E i \in 1..Len(frames["r1"]) :
       /\ frames["r1"][i].type = "tool_call" /\ Len(frames["r1"][i].tools) = 2
       /\ ResultsAfter(frames["r1"], i) = 2
       /\ i + 3 <= Len(frames["r1"]) /\ frames["r1"][i + 3].type = "token"

\* tokens of the token frames among fs[from..to], concatenated
RECURSIVE TokensOf(_, _, _)
TokensOf(fs, from, to) ==
  IF from > to THEN <<>>
  ELSE (IF fs[from].type = "token" THEN fs[from].token ELSE <<>>)
         \o TokensOf(fs, from + 1, to)

\* index of the last tool_call frame among fs[1..to], 0 if none
RECURSIVE LastToolCall(_, _)
LastToolCall(fs, to) ==
  IF to = 0 THEN 0
  ELSE IF fs[to].type = "tool_call" THEN to
  ELSE LastToolCall(fs, to - 1)

AssistantRows(r) == {i \in 1..Len(writes[r]) : writes[r][i].role = "assistant"}

\* C6 as stated: no row is appended before the event stream is exhausted; the
\* persisted assistant content is the concatenation of every token emitted in
\* the response; when the stream raises, an error frame is emitted and the
\* request has written nothing.
C6_PersistsAllTokens ==
  \A r \in Reqs :
    /\ writes[r] # <<>> => node[r] = "end"
    /\ \A i \in AssistantRows(r) :
         writes[r][i].content = TokensOf(frames[r], 1, Len(frames[r]))
    /\ pc[r] = "closed" /\ node[r] # "end" =>
         Last(frames[r]).type = "error" /\ writes[r] = <<>>

\* C6 amended: as C6, but the persisted assistant content is the concatenation
\* of the tokens emitted after the last tool_call frame of the response (of
\* every token when the response has no tool_call frame).
C6_PersistsTokensSinceToolCall ==
  \A r \in Reqs :
    /\ writes[r] # <<>> => node[r] = "end"
    /\ \A i \in AssistantRows(r) :
         /\ writes[r][i].content =
              TokensOf(frames[r], LastToolCall(frames[r], Len(frames[r])) + 1,
                       Len(frames[r]))
         /\ [session_id |-> request[r].session_id, role |-> "assistant",
             content |-> writes[r][i].content]
              \in {[session_id |-> q.session_id, role |-> q.role, content |-> q.content] :
                     q \in table}
    /\ pc[r] = "closed" /\ node[r] # "end" =>
         Last(frames[r]).type = "error" /\ writes[r] = <<>>

\* C6 witness: tokens, a tool_call, tokens again, and the turn persisted
C6_Witness ==
  /\ Succeeded("r1") /\ Len(writes["r1"]) = 2
  /\ \E i \in 2..Len(frames["r1"]) :
       /\ frames["r1"][i].type = "tool_call"
       /\ frames["r1"][1].type = "token"
  /\ writes["r1"][2].content # TokensOf(frames["r1"], 1, Len(frames["r1"]))

\* C7 as stated: the content field of every token frame is the concatenation of
\* the token fields of all token frames emitted so far in the response.
C7_ContentIsAllTokensSoFar ==
  \A r \in Reqs : \A i \in 1..Len(frames[r]) :
    frames[r][i].type = "token" => frames[r][i].content = TokensOf(frames[r], 1, i)

\* C7 amended: the content field of every token frame is the concatenation of
\* the token fields of the token frames emitted since the last tool_call frame
\* (since the start when there is none), itself included.
C7_ContentIsTokensSinceToolCall ==
  \A r \in Reqs : \A i \in 1..Len(frames[r]) :
    frames[r][i].type = "token" =>
      /\ frames[r][i].token # <<>>
      /\ frames[r][i].content = TokensOf(frames[r], LastToolCall(frames[r], i) + 1, i)

\* C7 witness: two different tokens in a row, then a tool_call, then a token
C7_Witness ==
  /\ Len(frames["r1"]) >= 4
  /\ frames["r1"][1].type = "token" /\ frames["r1"][2].type = "token"
  /\ frames["r1"][1].token # frames["r1"][2].token
  /\ frames["r1"][2].content = frames["r1"][1].token \o frames["r1"][2].token
  /\ frames["r1"][3].type = "tool_call"
  /\ frames["r1"][4].type = "token" /\ frames["r1"][4].content = frames["r1"][4].token

\* new holds exactly the rows of old plus a user row with content u followed
\* by an assistant row with content a, both of session s, with the two largest ids
TwoRowsAppended(old, new, s, u, a) ==
  \E ru \in new \ old : \E ra \in new \ old :
    /\ new = old \cup {ru, ra}
    /\ ru.session_id = s /\ ru.role = "user" /\ ru.content = u
    /\ ra.session_id = s /\ ra.role = "assistant" /\ ra.content = a
    /\ ru.id < ra.id
    /\ \A q \in old : q.id < ru.id

\* a streamed response of slot r ends with done in this step
StreamDoneStep(r) ==
  pc[r] = "stream" /\ pc'[r] = "closed" /\ Last(frames'[r]).type = "done"

\* C8 as stated: every exchange that completes successfully (POST /chat answers
\* 200, or the streamed response ends with done) appends exactly two rows to its
\* session, the user row first and the assistant row second, also when the
\* assistant text is empty.
C8_TwoRowsPerExchange ==
  [][/\ ChatStep /\ resp'.status = 200 =>
          TwoRowsAppended(table, table', resp'.session_id,
                          Last(resp'.seeded).content, resp'.response)
     /\ \A r \in Reqs : StreamDoneStep(r) =>
          TwoRowsAppended(table, table', request[r].session_id,
                          request[r].message, current_content[r])]_vars

\* C8 amended: a successful POST /chat appends exactly two rows (user, then
\* assistant), also when the assistant text is empty; a streamed response that
\* ends with done appends these two rows when its accumulated text is not empty
\* and appends nothing when it is empty.
C8_TwoRowsUnlessEmptyStream ==
  [][/\ ChatStep /\ resp'.status = 200 =>
          TwoRowsAppended(table, table', resp'.session_id,
                          Last(resp'.seeded).content, resp'.response)
     /\ \A r \in Reqs : StreamDoneStep(r) =>
          IF current_content[r] # <<>>
          THEN TwoRowsAppended(table, table', request[r].session_id,
                               request[r].message, current_content[r])
          ELSE table' = table]_vars

\* C8 witness: a POST /chat with an empty assistant text stored its two rows,
\* and a streamed response with no text ended with done and stored nothing
C8_Witness ==
  /\ Succeeded("r1") /\ current_content["r1"] = <<>> /\ writes["r1"] = <<>>
  /\ resp.op = "chat" /\ resp.status = 200 /\ resp.response = <<>>
  /\ \E q \in table : q.role = "assistant" /\ q.content = <<>>
  /\ Cardinality(table) = 2

\* "role: content" lines of turns, separated by newlines
RECURSIVE Rendered(_)
Rendered(turns) ==
  IF turns = <<>> THEN <<>>
  ELSE <<turns[1].role, ": ">> \o turns[1].content
         \o (IF Len(turns) > 1 THEN <<"\n">> ELSE <<>>) \o Rendered(Tail(turns))

\* C9: for a session without rows, recent and context_summary are empty and a
\* chat request seeds the graph with the user message alone; for a session with
\* N >= 1 rows the seed is one system message rendering the min(N,5) most recent
\* turns oldest first, followed by the user message.
C9_SeedFromContext ==
  /\ [](\A s \in Sessions : log[s] = <<>> =>
          /\ get_context(table, s) = <<>>
          /\ \A k \in -1..MaxLimit : get_recent_messages(table, s, k) = <<>>)
  /\ [][ChatStep /\ resp'.seeded # <<>> =>
          LET turns == log[resp'.session_id]
              seeded == resp'.seeded
          IN /\ Last(seeded) \in {HumanMessage(m) : m \in UserTexts}
             /\ IF turns = <<>>
                THEN Len(seeded) = 1
                ELSE /\ Len(seeded) = 2
                     /\ seeded[1] =
                          SystemMessage(<<"Recent conversation:", "\n">>
                                          \o Rendered(LastK(turns, 5)))]_vars

\* C9 witness: a chat request on a session holding six rows was seeded with a
\* system message rendering five of them
C9_Witness ==
  /\ resp.op = "chat" /\ resp.status = 500 /\ Len(resp.seeded) = 2
  /\ Len(log[resp.session_id]) = 6
  /\ resp.seeded[1].content =
       <<"Recent conversation:", "\n">> \o Rendered(SubSeq(log[resp.session_id], 2, 6))

\* C10: rows are immutable and the table is append-only: a row keeps its
\* session_id, role and content while it exists, a row disappears only in a
\* clear of its own session, and every inserted row gets an id greater than
\* every id assigned before it, ids of deleted rows included.
C10_AppendOnly ==
  [][/\ \A r \in table : \A q \in table' : r.id = q.id => r = q
     /\ \A r \in table \ table' :
          resp'.op = "clear" /\ resp'.status = 200 /\ resp'.session_id = r.session_id
     /\ \A q \in table' \ table : \A i \in issued : q.id > i
     /\ \A q \in table' \ table : \A p \in table' \ table :
          q.id = p.id => q = p]_vars

\* C10 witness: rows were inserted after a clear deleted the rows with the
\* largest ids, and the new ids are larger than the deleted ones
C10_Witness ==
  /\ table # {}
  /\ \E i \in issued : /\ \A q \in table : q.id # i
                       /\ \A j \in issued : j <= i => \A q \in table : q.id # j
                       /\ \E q \in table : q.id > i
  /\ \A q \in table : q.id > 2

\* C11: whatever the outbound call of a tool does (success, timeout, HTTP error
\* status, malformed or incomplete payload, unknown currency or timezone), the
\* tool returns a text and raises nothing; without TAVILY_API_KEY the search
\* tool returns its error text without making a network call.
C11_ToolsReturnText ==
  resp.op = "tool" =>
    /\ resp.result.t = "text"
    /\ resp.tool = "tavily_search" /\ ~resp.flag =>
         /\ resp.result = Text(<<"Error: TAVILY_API_KEY not set">>)
         /\ ~resp.network

\* C11 witness: the exchange-rate API answered 200 with a payload lacking
\* "rates", and the currency tool reported the failure as text
C11_Witness ==
  /\ resp.op = "tool" /\ resp.tool = "convert_currency"
  /\ resp.http = Response(200, JObj(<<>>))
  /\ resp.result = Text(<<"Currency conversion failed", ": ", "KeyError">>)

\* C12: a restart (MemoryManager constructed again, _init_db run again on the
\* same database) changes no session's history: for every session and every
\* k >= 1 the recent turns after the restart are the recent turns before it,
\* in the same order, and they are the last turns appended since the last clear.
C12_HistorySurvivesRestart ==
  [][resp'.op = "restart" =>
       \A s \in Sessions, k \in 1..MaxLimit :
         /\ get_recent_messages(table', s, k) = get_recent_messages(table, s, k)
         /\ get_recent_messages(table', s, k) = LastK(log[s], k)]_vars

\* C12 witness: a restart after appends and a clear, with turns left to read
C12_Witness ==
  /\ resp.op = "restart"
  /\ \E s \in Sessions : get_recent_messages(table, s, MaxLimit) # <<>>
  /\ \E i \in issued : \A r \in table : r.id # i

InGraph(r) == pc[r] = "graph"
LastMessage(r) == messages[r][Len(messages[r])]

\* C13: a run starts in Generate (node chat); a Generate step appends the model
\* response and moves to Dispatch (node tools) iff the response carries at least
\* one tool request, and to the end otherwise; a Dispatch step always returns to
\* Generate; the run reaches the end only by a Generate step whose response has
\* no tool request, and that response is the last message of the result; and a
\* run in Generate or Dispatch eventually ends or raises.
C13_GraphCycle ==
  /\ [][/\ ~InGraph("r1") /\ InGraph("r1")' => node'["r1"] = "chat"
        /\ (InGraph("r1") /\ node["r1"] = "chat" /\ messages'["r1"] # messages["r1"]) =>
             /\ \E out \in ModelOutputs : messages'["r1"] = Append(messages["r1"], out)
             /\ node'["r1"] = "tools" <=> LastMessage("r1")'.tool_calls # <<>>
             /\ node'["r1"] = "end" <=> LastMessage("r1")'.tool_calls = <<>>
        /\ (InGraph("r1") /\ node["r1"] = "tools" /\ messages'["r1"] # messages["r1"]) =>
             /\ node'["r1"] = "chat"
             /\ LastMessage("r1")'.type = "tool"
        /\ (node["r1"] # "end" /\ node'["r1"] = "end") =>
             /\ node["r1"] = "chat"
             /\ Len(messages'["r1"]) = Len(messages["r1"]) + 1
             /\ LastMessage("r1")'.type = "ai"
             /\ LastMessage("r1")'.tool_calls = <<>>]_vars
  /\ [](InGraph("r1") /\ node["r1"] = "end" =>
          LastMessage("r1").type = "ai" /\ LastMessage("r1").tool_calls = <<>>)
  /\ [](InGraph("r1") /\ node["r1"] = "tools" => LastMessage("r1").tool_calls # <<>>)
  /\ (InGraph("r1") /\ node["r1"] \in {"chat", "tools"})
       ~> (InGraph("r1") /\ node["r1"] \in {"end", "raised"})

\* C13 witness: a run ended after MaxGraphRounds rounds of Generate and Dispatch
C13_Witness ==
  /\ InGraph("r1") /\ node["r1"] = "end"
  /\ Rounds(messages["r1"]) = MaxGraphRounds
  /\ Len(messages["r1"]) >= 2 + 2 * MaxGraphRounds

\* the turns of session s in id order
SessionTurns(s) == get_recent_messages(table, s, Cardinality(table) + 1)
\* the rows request r has appended to session s
WritesTo(r, s) == IF request[r].session_id = s THEN writes[r] ELSE <<>>
\* the context a request reads when the session holds exactly these turns
ContextOf(turns, s) ==
  get_context({[id |-> i, session_id |-> s, role |-> turns[i].role,
                content |-> turns[i].content] : i \in 1..Len(turns)}, s)
Other(r) == CHOOSE o \in Reqs : o # r
EndsWithDone(r) ==
  pc[r] = "closed" /\ frames[r] # <<>> /\ Last(frames[r]).type = "done"

\* C14 as stated: each of two concurrent streamed requests to one session that
\* ends with done has its own two rows stored.
C14_DoneHasOwnRows ==
  \A r \in Reqs :
    /\ EndsWithDone(r) /\ pc[Other(r)] # "idle"
    /\ request[Other(r)].session_id = request[r].session_id
    => Len(writes[r]) = 2

\* C14 amended: with two concurrent streamed requests, the session's rows are
\* the rows of one request followed by the rows of the other, each exactly as
\* that request wrote them (a request with empty accumulated text writes none,
\* a request that ends with done after accumulating text has its two rows), and
\* each request ran with the context of the store either without or with the
\* other request's rows.
C14_SerialUpToStaleContext ==
  /\ \A s \in Sessions :
       \/ SessionTurns(s) = WritesTo("r1", s) \o WritesTo("r2", s)
       \/ SessionTurns(s) = WritesTo("r2", s) \o WritesTo("r1", s)
  /\ \A r \in Reqs :
       /\ EndsWithDone(r) =>
            writes[r] = IF current_content[r] = <<>> THEN <<>>
                        ELSE <<[role |-> "user", content |-> request[r].message],
                               [role |-> "assistant", content |-> current_content[r]]>>
       /\ messages[r] # <<>> =>
            \/ messages[r] = Seed(<<>>, request[r].message)
            \/ messages[r] = Seed(ContextOf(WritesTo(Other(r), request[r].session_id),
                                            request[r].session_id),
                                  request[r].message)

\* C14 witness: both requests to one session ended with done and stored their
\* rows, and the one whose rows come second had read its context before the
\* first one's rows were appended
C14_Witness ==
  /\ request["r1"].session_id = request["r2"].session_id
  /\ EndsWithDone("r1") /\ EndsWithDone("r2")
  /\ Len(writes["r1"]) = 2 /\ Len(writes["r2"]) = 2
  /\ current_content["r1"] # current_content["r2"]
  /\ SessionTurns(request["r1"].session_id) = writes["r1"] \o writes["r2"]
  /\ messages["r2"] = Seed(<<>>, request["r2"].message)

\* a step in which slot r leaves the event loop and closes its response
StreamCloseStep(r) == pc[r] = "stream" /\ pc'[r] = "closed"

\* C15: in every reachable state each assistant row is directly preceded, in id
\* order over the whole table, by a user row of the same session; every step that
\* inserts rows inserts the user row of one exchange and, with the next id, its
\* assistant row, or the user row alone in a step that reports failure; and a
\* step that removes rows removes all rows of one session and inserts none, so a
\* clear never falls between the two rows of an exchange.
C15_PairsBackToBack ==
  /\ [](\A a \in table : a.role = "assistant" =>
          \E u \in table : /\ u.id = a.id - 1
                           /\ u.session_id = a.session_id
                           /\ u.role = "user")
  /\ [][LET new == table' \ table
            gone == table \ table'
        IN /\ new # {} =>
                /\ gone = {}
                /\ \E u \in new :
                     /\ u.role = "user" /\ u.id = seq + 1
                     /\ \/ /\ new = {u}
                           /\ \/ ChatStep /\ resp'.status = 500
                                          /\ resp'.session_id = u.session_id
                              \/ \E r \in Reqs :
                                   /\ StreamCloseStep(r)
                                   /\ request[r] = [session_id |-> u.session_id,
                                                    message |-> u.content]
                                   /\ Last(frames'[r]).type = "error"
                        \/ \E a \in new :
                             /\ new = {u, a}
                             /\ a = [id |-> u.id + 1, session_id |-> u.session_id,
                                     role |-> "assistant", content |-> a.content]
                             /\ \/ ChatStep /\ resp'.status = 200
                                            /\ resp'.session_id = u.session_id
                                            /\ resp'.response = a.content
                                \/ \E r \in Reqs :
                                     /\ StreamCloseStep(r)
                                     /\ request[r] = [session_id |-> u.session_id,
                                                      message |-> u.content]
                                     /\ current_content[r] = a.content
                                     /\ Last(frames'[r]).type = "done"
           /\ gone # {} =>
                \E s \in Sessions : gone = {r \in table : r.session_id = s}]_vars

\* C15 witness: a streamed exchange read an empty context, a chat exchange of
\* the same session stored its pair while the stream was in its event loop, and
\* the stream then stored its own pair behind it
C15_Witness ==
  /\ pc["r1"] = "closed" /\ Len(writes["r1"]) = 2
  /\ messages["r1"] = Seed(<<>>, request["r1"].message)
  /\ \E a, b \in table :
       /\ a.role = "assistant" /\ b.role = "assistant" /\ a.id + 2 = b.id
       /\ a.session_id = request["r1"].session_id
       /\ b.session_id = request["r1"].session_id
       /\ b.content = current_content["r1"]
====
